---- MODULE Spec2Model ----
(***************************************************************************)
(* PantryToPlate backend (src/main.go, src/allqueries.sql).                *)
(*                                                                         *)
(* One process: main() reads its environment, builds a pgx connection     *)
(* pool, pings the database and then serves HTTP.  Each request runs on   *)
(* its own goroutine (a worker slot here); the handlers share only the    *)
(* pool and the table public.pantry_items.  A handler is cut into steps   *)
(* at its interactions with the pool and the database, since those are    *)
(* the points where another request can interleave.                       *)
(***************************************************************************)
EXTENDS Naturals, Sequences, FiniteSets

\* ------------------------------------------------------------------ bounds

NumWorkers == 2     \* request goroutines that can be in flight at once
MaxItems == 3       \* rows ever inserted (ids are never reused)
MaxClock == 1       \* values of the database clock now() are 0..MaxClock
MaxConns == 1       \* connections the pool hands out at once
MaxPoolItems == 1   \* rows ever inserted while requests run concurrently

Workers == 1..NumWorkers

\* ------------------------------------------------- values of the interface

StatusOK == 200
StatusCreated == 201
StatusBadRequest == 400
StatusNotFound == 404
StatusInternalServerError == 500

Users == {"demo_user", "other_user"}
Names == {"Milk"}
Quantities == {"2"}

\* A JSON field, a Go *string and a nullable column are a sequence of length
\* at most one: << >> is absent / nil / NULL, <<v>> is the value v.
Nil == << >>
Ptr(v) == <<v>>

\* A JSON object with the three fields of CreatePantryItemRequest.
Body(u, n, q) == [wellformed |-> TRUE, user_id |-> u, name |-> n, quantity |-> q]

\* Text that is no JSON.
Malformed == [wellformed |-> FALSE, user_id |-> Nil, name |-> Nil, quantity |-> Nil]

\* Bodies that name an owner and an item, with and without a quantity.
GoodBodies ==
    {Body(Ptr("demo_user"), Ptr(n), q) : n \in Names,
                                        q \in {Nil} \cup {Ptr(x) : x \in Quantities}}
    \cup {Body(Ptr("other_user"), Ptr(n), Nil) : n \in Names}

\* Malformed JSON, and objects whose user_id or name is absent or empty.
BadBodies ==
    {Malformed}
    \cup {Body(u, Ptr("Milk"), Nil) : u \in {Nil, Ptr("")}}
    \cup {Body(Ptr("demo_user"), n, Ptr("2")) : n \in {Nil, Ptr("")}}
    \cup {Body(Nil, Ptr(""), Nil)}

Bodies == GoodBodies \cup BadBodies

\* Values of the user_id query parameter (c.Query yields "" when absent).
QueryUsers == {""} \cup Users

\* A uuid value is a number 1..MaxItems.  The text of an id in a path is the
\* uuid in lower case (the form the database prints), the same uuid in upper
\* case, or text that is no uuid at all.
UUIDs == 1..MaxItems
NoUUID == 0
IdTexts ==
    [form : {"lower"}, n : UUIDs]
    \cup {[form |-> "upper", n |-> 1], [form |-> "text", n |-> NoUUID]}

\* -------------------------------------------------------------------- state

VARIABLES
    environ,        \* process environment: DATABASE_URL and PORT
    mainPc,         \* position of main()
    port,           \* main's local port
    poolOpen,       \* pgxpool.New returned a pool
    pinged,         \* pool.Ping returned nil
    fatal,          \* message of the log.Fatal that ended the process, or ""
    listenAddr,     \* address r.Run listens on, or ""
    dbUp,           \* whether the database answers
    inUse,          \* connections handed out by the pool
    pantry_items,   \* rows of public.pantry_items
    nextId,         \* the uuid gen_random_uuid() yields next
    now,            \* the database clock
    req,            \* per worker: the request its handler is working on
    response        \* the response the step just taken sent to a client

vars == <<environ, mainPc, port, poolOpen, pinged, fatal, listenAddr, dbUp,
          inUse, pantry_items, nextId, now, req, response>>

startupVars == <<environ, mainPc, port, poolOpen, pinged, fatal, listenAddr>>
dbVars == <<pantry_items, nextId, now>>

NoArg == [none |-> TRUE]
Idle == [route |-> "none", pc |-> "idle", arg |-> NoArg, conn |-> FALSE,
         rows |-> << >>, items |-> << >>, err |-> ""]
NoResponse == [to |-> 0, route |-> "none", arg |-> NoArg, status |-> 0,
               body |-> [kind |-> "none"], err |-> ""]

DatabaseURLs == {"", "not a url", "postgres://db/pantry"}
Ports == {"", "9090"}

Init ==
    /\ environ \in [DATABASE_URL : DatabaseURLs, PORT : Ports]
    /\ mainPc = "getenv"
    /\ port = ""
    /\ poolOpen = FALSE
    /\ pinged = FALSE
    /\ fatal = ""
    /\ listenAddr = ""
    /\ dbUp \in BOOLEAN
    /\ inUse = 0
    /\ pantry_items = {}
    /\ nextId = 1
    /\ now = 0
    /\ req = [w \in Workers |-> Idle]
    /\ response = NoResponse

\* A step that sends nothing.
Quiet == response' = NoResponse

\* ------------------------------------------------------------------ startup

\* log.Fatal: the message is logged and the process exits; nothing listens.
Exit(msg) ==
    /\ mainPc' = "exited"
    /\ fatal' = msg

\* main.go:37-40
DefaultPort(p) == IF p = "" THEN "8080" ELSE p

\* main.go:32-40
GetEnv ==
    /\ mainPc = "getenv"
    /\ IF environ.DATABASE_URL = ""
         THEN /\ Exit("DATABASE_URL is missing in environment")
              /\ UNCHANGED port
         ELSE /\ port' = DefaultPort(environ.PORT)
              /\ mainPc' = "newpool"
              /\ UNCHANGED fatal
    /\ UNCHANGED <<environ, poolOpen, pinged, listenAddr, dbUp, inUse, dbVars, req>>
    /\ Quiet

\* pgxpool.New parses the connection string and opens no connection.
ParseConfigOk(url) == url = "postgres://db/pantry"

\* main.go:46-49
NewPool ==
    /\ mainPc = "newpool"
    /\ IF ParseConfigOk(environ.DATABASE_URL)
         THEN /\ poolOpen' = TRUE
              /\ mainPc' = "ping"
              /\ UNCHANGED fatal
         ELSE /\ Exit("failed to create db pool")
              /\ UNCHANGED poolOpen
    /\ UNCHANGED <<environ, port, pinged, listenAddr, dbUp, inUse, dbVars, req>>
    /\ Quiet

\* The errors pool.Ping(ctx) can return under the 5 s startup context: nil
\* only from a database that answers, a deadline error from a slow one.
PingErrors(up) ==
    IF up THEN {"nil", "context deadline exceeded"}
          ELSE {"connection refused", "context deadline exceeded"}

\* Variant: the result of the ping is ignored.
PingFatalNever(err) == FALSE

\* main.go:53 (the test err != nil)
PingFatal(err) == err # "nil"

\* main.go:53-55.  Ping acquires a connection and releases it before returning.
Ping ==
    /\ mainPc = "ping"
    /\ \E err \in PingErrors(dbUp) :
         IF PingFatal(err)
           THEN /\ Exit("failed to ping db")
                /\ UNCHANGED pinged
           ELSE /\ pinged' = (err = "nil")
                /\ mainPc' = "run"
                /\ UNCHANGED fatal
    /\ UNCHANGED <<environ, port, poolOpen, listenAddr, dbUp, inUse, dbVars, req>>
    /\ Quiet

\* main.go:188-191.  r.Run binds ":" + port, or fails (the port is taken).
Run ==
    /\ mainPc = "run"
    /\ \/ /\ listenAddr' = ":" \o port
          /\ mainPc' = "serving"
          /\ UNCHANGED fatal
       \/ /\ Exit("server failed")
          /\ UNCHANGED listenAddr
    /\ UNCHANGED <<environ, port, poolOpen, pinged, dbUp, inUse, dbVars, req>>
    /\ Quiet

Serving == mainPc = "serving"

\* -------------------------------------------------------------- environment

\* The database becomes unreachable, or reachable again.
DbToggle ==
    /\ dbUp' = ~dbUp
    /\ UNCHANGED <<startupVars, inUse, dbVars, req>>
    /\ Quiet

\* The database clock advances.
Tick ==
    /\ now < MaxClock
    /\ now' = now + 1
    /\ UNCHANGED <<startupVars, dbUp, inUse, pantry_items, nextId, req>>
    /\ Quiet


\* ------------------------------------------------------- pool and responses

\* Error texts of the driver: a statement on a database that does not
\* answer, a result whose reading breaks off, a row that cannot be scanned,
\* and text the database does not accept as a uuid.
ConnLost == "connection lost"
ReadFailed == "unexpected EOF"
ScanFailed == "cannot scan"
BadUUID == "invalid input syntax for type uuid"

\* pgxpool hands out a connection when one is free; the caller waits otherwise.
CanAcquire == inUse < MaxConns

\* gin.H{"error": msg, "details": details}; details is "" when the key is absent.
ErrorBody(msg, details) == [kind |-> "error", error |-> msg, details |-> details]

\* c.JSON(status, body) as the last thing worker w does for its request: the
\* response goes out and the goroutine ends.  err is the error the driver
\* raised for the request's statement, "" when it raised none.
Send(w, status, body, err) ==
    /\ response' = [to |-> w, route |-> req[w].route, arg |-> req[w].arg,
                    status |-> status, body |-> body, err |-> err]
    /\ req' = [req EXCEPT ![w] = Idle]

\* A request is dispatched to a free worker only while the router listens.
CanBegin(w) == Serving /\ req[w].pc = "idle"

\* The pool.QueryRow / pool.Query / pool.Exec call of a handler takes a
\* connection from the pool before it sends its statement.
Acquire(w) ==
    /\ Serving
    /\ req[w].pc = "acquire"
    /\ CanAcquire
    /\ inUse' = inUse + 1
    /\ req' = [req EXCEPT ![w].pc = "stmt", ![w].conn = TRUE]
    /\ UNCHANGED <<startupVars, dbUp, dbVars>>
    /\ Quiet

\* ------------------------------------------------------------- GET /health

\* Variant: a health check that reports the database, as /db-test does.
HealthBodyByDb(up) ==
    IF up THEN [status |-> StatusOK, body |-> [kind |-> "health", status |-> "ok"]]
          ELSE [status |-> StatusInternalServerError,
                body |-> ErrorBody("db query failed", "connection refused")]

\* main.go:65-67
HealthBody(up) == [status |-> StatusOK, body |-> [kind |-> "health", status |-> "ok"]]

\* main.go:65-67: the whole handler; it touches neither pool nor database.
Health ==
    /\ Serving
    /\ response' = [to |-> 0, route |-> "GET /health", arg |-> [dbUp |-> dbUp],
                    status |-> HealthBody(dbUp).status,
                    body |-> HealthBody(dbUp).body, err |-> ""]
    /\ UNCHANGED <<startupVars, dbUp, inUse, dbVars, req>>

\* A client asks for /health while nothing listens (main has not reached
\* r.Run, or log.Fatal ended the process): the connection is refused and no
\* response is sent.
HealthRefused ==
    /\ ~Serving
    /\ response' = [to |-> 0, route |-> "GET /health", arg |-> [dbUp |-> dbUp],
                    status |-> 0, body |-> [kind |-> "refused"], err |-> ""]
    /\ UNCHANGED <<startupVars, dbUp, inUse, dbVars, req>>

\* ------------------------------------------------------ POST /pantry/items

\* c.ShouldBindJSON into CreatePantryItemRequest: malformed JSON is an error;
\* an absent string field is left "" and an absent quantity is left nil.
ShouldBindJSON(body) ==
    [err |-> ~body.wellformed,
     UserID |-> IF body.user_id = Nil THEN "" ELSE body.user_id[1],
     Name |-> IF body.name = Nil THEN "" ELSE body.name[1],
     Quantity |-> body.quantity]

\* Variant: the check of the name is missing.
ValidationErrorNoName(b) ==
    IF b.err THEN "invalid JSON body"
    ELSE IF b.UserID = "" THEN "user_id is required (use 'demo_user' for MVP)"
    ELSE ""

\* main.go:89-102: the message of the 400 response, or "" when the request
\* passes.
ValidationError(b) ==
    IF b.err THEN "invalid JSON body"
    ELSE IF b.UserID = "" THEN "user_id is required (use 'demo_user' for MVP)"
    ELSE IF b.Name = "" THEN "name is required"
    ELSE ""

\* Requests that have passed validation and not yet inserted.
PendingInserts ==
    Cardinality({v \in Workers : req[v].route = "POST"})

\* main.go:85-102.  cap bounds the rows ever inserted.
PostBegin(w, body, cap) ==
    /\ CanBegin(w)
    /\ LET msg == ValidationError(ShouldBindJSON(body))
           r == [Idle EXCEPT !.route = "POST", !.arg = body]
       IN IF msg # ""
            THEN /\ response' = [to |-> w, route |-> "POST", arg |-> body,
                                 status |-> StatusBadRequest,
                                 body |-> ErrorBody(msg, ""), err |-> ""]
                 /\ UNCHANGED req
            ELSE /\ nextId + PendingInserts <= cap
                 /\ req' = [req EXCEPT ![w] = [r EXCEPT !.pc = "acquire"]]
                 /\ Quiet
    /\ UNCHANGED <<startupVars, dbUp, inUse, dbVars>>

\* The text the database prints for a uuid.
UUIDText(u) == [form |-> "lower", n |-> u]

\* Variant: the insert does not pass the quantity.
InsertedRowNoQuantity(b, id, t) ==
    [id |-> id, user_id |-> b.UserID, name |-> b.Name,
     quantity |-> Nil, created_at |-> t]

\* allqueries.sql:5-11 with main.go:107-109: the row an insert stores; id and
\* created_at come from the column defaults.
InsertedRow(b, id, t) ==
    [id |-> id, user_id |-> b.UserID, name |-> b.Name,
     quantity |-> b.Quantity, created_at |-> t]

\* rows.Scan of a row into a PantryItem.
ScanItem(row) ==
    [ID |-> UUIDText(row.id), UserID |-> row.user_id, Name |-> row.name,
     Quantity |-> row.quantity, CreatedAt |-> row.created_at]

\* main.go:112-125.  QueryRow(...).Scan runs the insert, reads the returned
\* row and closes it, which gives the connection back; then the response.
PostInsert(w) ==
    /\ Serving
    /\ req[w].route = "POST"
    /\ req[w].pc = "stmt"
    /\ inUse' = inUse - 1
    /\ LET row == InsertedRow(ShouldBindJSON(req[w].arg), nextId, now)
       IN IF dbUp
            THEN /\ pantry_items' = pantry_items \cup {row}
                 /\ nextId' = nextId + 1
                 /\ Send(w, StatusCreated,
                         [kind |-> "item", item |-> ScanItem(row)], "")
            ELSE /\ UNCHANGED <<pantry_items, nextId>>
                 /\ Send(w, StatusInternalServerError,
                         ErrorBody("failed to insert pantry item", ConnLost),
                         ConnLost)
    /\ UNCHANGED <<startupVars, dbUp, now>>

\* ------------------------------------------------------- GET /pantry/items

\* The orders in which a set of rows can be returned.
Orderings(S) ==
    {s \in [1..Cardinality(S) -> S] :
        \A i, j \in 1..Cardinality(S) : i # j => s[i] # s[j]}

\* Variant: order by created_at asc.
OrderedAsc(s) ==
    \A i, j \in 1..Len(s) : i < j => s[i].created_at <= s[j].created_at

\* order by created_at desc: rows of equal created_at come in any order.
OrderedDesc(s) ==
    \A i, j \in 1..Len(s) : i < j => s[i].created_at >= s[j].created_at

\* where user_id = $1
WhereUser(table, userID) == {r \in table : r.user_id = userID}

\* main.go:137-142: the results the select can produce.
SelectByUser(table, userID) ==
    {s \in Orderings(WhereUser(table, userID)) : OrderedDesc(s)}

\* main.go:130-135
ListBegin(w, userID) ==
    /\ CanBegin(w)
    /\ LET r == [Idle EXCEPT !.route = "LIST", !.arg = [user_id |-> userID]]
       IN IF userID = ""
            THEN /\ response' = [to |-> w, route |-> "LIST", arg |-> r.arg,
                                 status |-> StatusBadRequest,
                                 body |-> ErrorBody("user_id query param is required (example: ?user_id=demo_user)", ""),
                                 err |-> ""]
                 /\ UNCHANGED req
            ELSE /\ req' = [req EXCEPT ![w] = [r EXCEPT !.pc = "acquire"]]
                 /\ Quiet
    /\ UNCHANGED <<startupVars, dbUp, inUse, dbVars>>

\* main.go:144-149.  pool.Query sends the select; on an error it has given
\* the connection back before it returns, otherwise the rows keep it.
ListQuery(w) ==
    /\ Serving
    /\ req[w].route = "LIST"
    /\ req[w].pc = "stmt"
    /\ IF dbUp
         THEN /\ \E result \in SelectByUser(pantry_items, req[w].arg.user_id) :
                   req' = [req EXCEPT ![w].pc = "rows", ![w].rows = result]
              /\ UNCHANGED inUse
              /\ Quiet
         ELSE /\ inUse' = inUse - 1
              /\ Send(w, StatusInternalServerError,
                      ErrorBody("failed to query pantry items", ConnLost),
                      ConnLost)
    /\ UNCHANGED <<startupVars, dbUp, dbVars>>

\* Variant: a failed scan leaves the rows open.
HeldAfterScanErrorLeak(held) == held

\* rows.Scan closes the rows when it fails, which gives the connection back.
HeldAfterScanError(held) == FALSE

\* Leaving the loop of main.go:152-159 for the response that follows it.
LeaveLoop(w, err, held) ==
    /\ req' = [req EXCEPT ![w].pc = "respond", ![w].err = err, ![w].conn = held]
    /\ inUse' = IF req[w].conn /\ ~held THEN inUse - 1 ELSE inUse

\* main.go:152-159: one turn of the loop.  rows.Next() yields the next row
\* of the result, or false at its end or when reading fails; in both cases
\* it closes the rows, which gives the connection back.
ListNext(w) ==
    /\ Serving
    /\ req[w].route = "LIST"
    /\ req[w].pc = "rows"
    /\ LET n == Len(req[w].items)
       IN IF n < Len(req[w].rows)
            THEN \/ /\ req' = [req EXCEPT ![w].items =
                                 Append(@, ScanItem(req[w].rows[n + 1]))]
                    /\ UNCHANGED inUse
                 \/ LeaveLoop(w, ScanFailed, HeldAfterScanError(req[w].conn))
                 \/ /\ ~dbUp
                    /\ LeaveLoop(w, ReadFailed, FALSE)
            ELSE LeaveLoop(w, "", FALSE)
    /\ UNCHANGED <<startupVars, dbUp, dbVars>>
    /\ Quiet

\* main.go:155-156 and 161, then the deferred rows.Close() of line 149.  The
\* handler never asks rows.Err(), so a failed read ends the loop like the
\* end of the result does.
ListRespond(w) ==
    /\ Serving
    /\ req[w].route = "LIST"
    /\ req[w].pc = "respond"
    /\ IF req[w].err = ScanFailed
         THEN Send(w, StatusInternalServerError,
                   ErrorBody("failed to read row", ScanFailed), ScanFailed)
         ELSE Send(w, StatusOK, [kind |-> "items", items |-> req[w].items],
                   req[w].err)
    /\ inUse' = IF req[w].conn THEN inUse - 1 ELSE inUse
    /\ UNCHANGED <<startupVars, dbUp, dbVars>>

\* -------------------------------------------------- DELETE /pantry/items/:id

\* The uuid a text denotes to the database (allqueries.sql:6), NoUUID when
\* the database rejects the text.
ParseUUID(t) == IF t.form = "text" THEN NoUUID ELSE t.n

\* main.go:165-170.  The router never yields an empty :id.
DeleteBegin(w, id) ==
    /\ CanBegin(w)
    /\ req' = [req EXCEPT ![w] =
                 [Idle EXCEPT !.route = "DELETE", !.arg = [id |-> id],
                              !.pc = "acquire"]]
    /\ UNCHANGED <<startupVars, dbUp, inUse, dbVars>>
    /\ Quiet

\* Variant: the delete removes every row of the owner of row u.
DeleteWhereOwner(table, u) ==
    {r \in table : \A d \in table : d.id = u => r.user_id # d.user_id}

\* delete from public.pantry_items where id = $1
DeleteWhereId(table, u) == {r \in table : r.id # u}

\* Variant: the affected-row count is not consulted.
RowsAffectedOne(table, u) == 1

\* cmdTag.RowsAffected()
RowsAffected(table, u) == Cardinality({r \in table : r.id = u})

\* main.go:172-185.  pool.Exec takes and gives back the connection itself.
DeleteExec(w) ==
    /\ Serving
    /\ req[w].route = "DELETE"
    /\ req[w].pc = "stmt"
    /\ inUse' = inUse - 1
    /\ LET u == ParseUUID(req[w].arg.id)
       IN IF ~dbUp
            THEN /\ Send(w, StatusInternalServerError,
                         ErrorBody("failed to delete pantry item", ConnLost),
                         ConnLost)
                 /\ UNCHANGED pantry_items
            ELSE IF u = NoUUID
            THEN /\ Send(w, StatusInternalServerError,
                         ErrorBody("failed to delete pantry item", BadUUID),
                         BadUUID)
                 /\ UNCHANGED pantry_items
            ELSE /\ pantry_items' = DeleteWhereId(pantry_items, u)
                 /\ IF RowsAffected(pantry_items, u) = 0
                      THEN Send(w, StatusNotFound, ErrorBody("item not found", ""), "")
                      ELSE Send(w, StatusOK,
                                [kind |-> "deleted", deleted |-> TRUE,
                                 id |-> req[w].arg.id], "")
    /\ UNCHANGED <<startupVars, dbUp, nextId, now>>

\* ------------------------------------------------------------ specification

\* The steps of the handlers of workers W for requests with bodies B, user_id
\* parameters Q and :id texts I, inserting at most cap rows.
Handlers(W, B, Q, I, cap) ==
    \/ \E w \in W : Acquire(w)
    \/ \E w \in W, body \in B : PostBegin(w, body, cap)
    \/ \E w \in W : PostInsert(w)
    \/ \E w \in W, userID \in Q : ListBegin(w, userID)
    \/ \E w \in W : ListQuery(w)
    \/ \E w \in W : ListNext(w)
    \/ \E w \in W : ListRespond(w)
    \/ \E w \in W, id \in I : DeleteBegin(w, id)
    \/ \E w \in W : DeleteExec(w)

\* The state main() has reached when r.Run listens, with PORT unset.
Started ==
    /\ environ = [DATABASE_URL |-> "postgres://db/pantry", PORT |-> ""]
    /\ mainPc = "serving"
    /\ port = "8080"
    /\ poolOpen = TRUE
    /\ pinged = TRUE
    /\ fatal = ""
    /\ listenAddr = ":8080"
    /\ dbUp = TRUE
    /\ inUse = 0
    /\ pantry_items = {}
    /\ nextId = 1
    /\ now = 0
    /\ req = [w \in Workers |-> Idle]
    /\ response = NoResponse

\* One request at a time, over every input: what each handler does.
Next ==
    \/ DbToggle
    \/ Tick
    \/ Handlers({1}, Bodies, QueryUsers, IdTexts, MaxItems)

Spec == Started /\ [][Next]_vars

\* The process from its start, serving one simple request at a time.
SlimBodies == {Body(Ptr("demo_user"), Ptr("Milk"), Nil), Body(Ptr("demo_user"), Nil, Nil)}
SlimUsers == {"demo_user"}
SlimIds == {[form |-> "lower", n |-> 1], [form |-> "text", n |-> NoUUID]}

NextBoot ==
    \/ GetEnv
    \/ NewPool
    \/ Ping
    \/ Run
    \/ DbToggle
    \/ Health
    \/ HealthRefused
    \/ Handlers({1}, SlimBodies, SlimUsers, SlimIds, MaxPoolItems)

SpecBoot == Init /\ [][NextBoot]_vars

\* Requests in flight on every worker at once.
NextPool ==
    \/ DbToggle
    \/ Handlers(Workers, SlimBodies, SlimUsers, SlimIds, MaxPoolItems)

SpecPool == Started /\ [][NextPool]_vars

\* ------------------------------------------------------------------ steps

\* The step in which worker w's insert runs and is answered.
PostRan(w) == req[w].route = "POST" /\ req[w].pc = "stmt" /\ req'[w].pc = "idle"

\* The step in which the database accepts worker w's select.
ListQueried(w) == req[w].route = "LIST" /\ req[w].pc = "stmt" /\ req'[w].pc = "rows"

\* The step in which worker w answers a list request after its loop.
ListAnswered(w) ==
    req[w].route = "LIST" /\ req[w].pc = "respond" /\ req'[w].pc = "idle"

\* The step in which worker w's delete runs and is answered.
DeleteRan(w) == req[w].route = "DELETE" /\ req[w].pc = "stmt" /\ req'[w].pc = "idle"

\* The id text t names row r: it is r's uuid in either case.
Identifies(t, r) == t.form \in {"lower", "upper"} /\ t.n = r.id

\* The JSON of one row, as a client is to receive it.
Shows(item, r) ==
    /\ item.ID = [form |-> "lower", n |-> r.id]
    /\ item.UserID = r.user_id
    /\ item.Name = r.name
    /\ item.Quantity = r.quantity
    /\ item.CreatedAt = r.created_at

\* A body that is malformed or lacks a non-empty user_id or name.
Rejected(body) ==
    \/ ~body.wellformed
    \/ body.user_id \in {Nil, Ptr("")}
    \/ body.name \in {Nil, Ptr("")}

\* ----------------------------------------------------------------- claims

C2_BadCreateIs400 ==
    /\ [](\A w \in Workers : req[w].route = "POST" => ~Rejected(req[w].arg))
    /\ [][(response'.route = "POST" /\ Rejected(response'.arg)) =>
             /\ response'.status = StatusBadRequest
             /\ pantry_items' = pantry_items
             /\ nextId' = nextId
             /\ inUse' = inUse]_vars

\* C2 witness: a body with an empty name is answered 400 while the table
\* holds rows.
C2_Witness ==
    /\ response.route = "POST"
    /\ response.status = StatusBadRequest
    /\ response.arg.name = Ptr("")
    /\ pantry_items # {}

\* C3: a list for a non-empty user_id whose query and reads raise no error
\* is answered 200 with exactly the rows of that owner at the time of the
\* query, each once, none of another owner, and no item before one with a
\* later created_at; an owner without rows gets 200 and the empty array.
C3_ListIsExactNewestFirst ==
    [][\A w \in Workers :
         /\ ListQueried(w) =>
               LET rs == req'[w].rows
                   mine == {r \in pantry_items : r.user_id = req[w].arg.user_id}
               IN /\ {rs[i] : i \in 1..Len(rs)} = mine
                  /\ Len(rs) = Cardinality(mine)
         /\ (ListAnswered(w) /\ req[w].err = "") =>
               LET rs == req[w].rows
                   items == response'.body.items
               IN /\ response'.status = StatusOK
                  /\ response'.body.kind = "items"
                  /\ Len(items) = Len(rs)
                  /\ \A i \in 1..Len(rs) : Shows(items[i], rs[i])
                  /\ \A i, j \in 1..Len(items) :
                        i < j => ~(items[i].CreatedAt < items[j].CreatedAt)
                  /\ \A i \in 1..Len(items) :
                        items[i].UserID = req[w].arg.user_id
      ]_vars

\* C3 witness: a list answered with two items of different times while the
\* table also holds a row of another owner.
C3_Witness ==
    /\ response.route = "LIST"
    /\ response.status = StatusOK
    /\ response.err = ""
    /\ Len(response.body.items) = 2
    /\ response.body.items[1].CreatedAt > response.body.items[2].CreatedAt
    /\ \E r \in pantry_items : r.user_id # response.arg.user_id

\* C4: a DELETE whose id names an existing row, run on a database that
\* answers, is answered 200 with a confirmation carrying the id as given,
\* removes that row and no other, and the row is in no result of a later
\* list: a removed row never comes back and a list yields only present rows.
C4_DeleteRemovesOneRow ==
    [][/\ \A w \in Workers :
             (DeleteRan(w) /\ dbUp) =>
                \A r \in pantry_items :
                   Identifies(req[w].arg.id, r) =>
                      /\ response'.status = StatusOK
                      /\ response'.body.kind = "deleted"
                      /\ response'.body.id = req[w].arg.id
                      /\ pantry_items' = pantry_items \ {r}
       /\ \A w \in Workers :
             ListQueried(w) =>
                \A i \in 1..Len(req'[w].rows) : req'[w].rows[i] \in pantry_items
       /\ \A u \in 1..(nextId - 1) :
             (\A r \in pantry_items : r.id # u) =>
                (\A r \in pantry_items' : r.id # u)
      ]_vars

\* C4 witness: a delete by the upper-case text of an id is answered 200 and
\* other rows remain.
C4_Witness ==
    /\ response.route = "DELETE"
    /\ response.status = StatusOK
    /\ response.arg.id.form = "upper"
    /\ pantry_items # {}

\* C5: a DELETE whose id text names no row of pantry_items, run on a
\* database that answers, is answered 404 and leaves the table unchanged.
C5_MissingIdIs404 ==
    [][\A w \in Workers :
         (/\ DeleteRan(w)
          /\ dbUp
          /\ \A r \in pantry_items : ~Identifies(req[w].arg.id, r)) =>
            /\ response'.status = StatusNotFound
            /\ pantry_items' = pantry_items
      ]_vars

\* C6: a response to a request whose database operation raised an error is
\* a 500 carrying an error message and the driver's error text.
C6_DbFailureIs500 ==
    response.err # "" =>
       /\ response.status = StatusInternalServerError
       /\ response.body.kind = "error"
       /\ response.body.error # ""
       /\ response.body.details = response.err

\* C7 as claimed: with a usable configuration and a free port, a client's
\* GET /health is answered 200 whatever the state of the database was at
\* process start and is at the moment of the request.
C7_HealthAlways200 ==
    (/\ response.route = "GET /health"
     /\ mainPc \in {"serving", "exited"}
     /\ ParseConfigOk(environ.DATABASE_URL)
     /\ fatal # "server failed") =>
        response.status = StatusOK

\* C7 amended: once startup has succeeded, GET /health is answered 200 with
\* status "ok" whether or not the database answers at that moment, and the
\* step changes nothing but the response; a process whose startup ping
\* failed has exited and answers no /health.
C7_HealthWhileServing ==
    /\ [][(response'.route = "GET /health" /\ response'.status # 0) =>
             /\ response'.status = StatusOK
             /\ response'.body = [kind |-> "health", status |-> "ok"]
             /\ UNCHANGED <<startupVars, dbUp, inUse, dbVars, req>>]_vars
    /\ []((response.route = "GET /health" /\ fatal = "failed to ping db") =>
             response.status = 0)

\* C7 witness: /health answered 200 while the database does not answer.
C7_Witness ==
    /\ response.route = "GET /health"
    /\ response.status = StatusOK
    /\ ~dbUp

\* C8: a request is handled only by a process that listens, and a process
\* listens only after DATABASE_URL was non-empty, the pool was built and the
\* ping returned nil, in that order; a failure of any of these ends the
\* process with nothing listening; with PORT unset it listens on :8080.
C8_ServesOnlyAfterStartup ==
    /\ (\/ response.status # 0
        \/ \E w \in Workers : req[w].pc # "idle") => Serving
    /\ (Serving \/ listenAddr # "") =>
          /\ environ.DATABASE_URL # ""
          /\ poolOpen
          /\ pinged
    /\ pinged => poolOpen
    /\ poolOpen => environ.DATABASE_URL # ""
    /\ fatal \in {"DATABASE_URL is missing in environment",
                  "failed to create db pool", "failed to ping db"} =>
          /\ mainPc = "exited"
          /\ listenAddr = ""
    /\ (environ.DATABASE_URL = "" /\ mainPc # "getenv") => mainPc = "exited"
    /\ Serving => listenAddr = (IF environ.PORT = "" THEN ":8080"
                                ELSE ":" \o environ.PORT)

\* C8 witness: with PORT unset the process listens on :8080 and has just
\* answered a create.
C8_Witness ==
    /\ Serving
    /\ environ.PORT = ""
    /\ listenAddr = ":8080"
    /\ response.status = StatusCreated

\* C9: the pool never hands out more than MaxConns connections, the ones
\* handed out are exactly those the handlers hold (one each at most, and
\* only between taking it and the end of the statement's result), a handler
\* about to send its response holds none, and with no request in flight
\* none is in use.
C9_ConnectionsReleased ==
    /\ inUse <= MaxConns
    /\ inUse = Cardinality({w \in Workers : req[w].conn})
    /\ \A w \in Workers : req[w].conn => req[w].pc \in {"stmt", "rows"}
    /\ (\A w \in Workers : req[w].pc = "idle") => inUse = 0

\* C9 witness: one handler is about to answer after a failed scan while
\* another already runs its statement on the pool's last connection.
C9_Witness ==
    \E w, v \in Workers :
       /\ req[w].pc = "respond"
       /\ req[w].err = ScanFailed
       /\ req[v].pc = "stmt"
       /\ inUse = MaxConns

\* C10: of the DELETEs for one id that run on a database that answers, the
\* one whose statement finds the row is answered 200 and removes it, and
\* each whose statement finds no such row is answered 404 and removes
\* nothing; as the statements run one after the other, exactly one of
\* several concurrent DELETEs gets 200.  No step changes a row in place, and
\* a list shows each row as it is stored.
C10_OneDeleteWins ==
    [][/\ \A w \in Workers :
             (DeleteRan(w) /\ dbUp /\ req[w].arg.id.form # "text") =>
                LET found == {r \in pantry_items : Identifies(req[w].arg.id, r)}
                IN /\ response'.status =
                         (IF found = {} THEN StatusNotFound ELSE StatusOK)
                   /\ pantry_items' = pantry_items \ found
                   /\ Cardinality(found) <= 1
       /\ \A r \in pantry_items, r2 \in pantry_items' : r.id = r2.id => r = r2
       /\ \A w \in Workers :
             ListQueried(w) =>
                \A i \in 1..Len(req'[w].rows) : req'[w].rows[i] \in pantry_items
       /\ \A w \in Workers :
             (req[w].pc = "rows" /\ req'[w].items # req[w].items) =>
                /\ Len(req'[w].items) = Len(req[w].items) + 1
                /\ \A i \in 1..Len(req'[w].items) :
                      Shows(req'[w].items[i], req[w].rows[i])
      ]_vars

\* C10 witness: a DELETE has just been answered 200 while another DELETE for
\* the same id is still in flight.
C10_Witness ==
    /\ response.route = "DELETE"
    /\ response.status = StatusOK
    /\ \E v \in Workers :
          /\ v # response.to
          /\ req[v].route = "DELETE"
          /\ req[v].arg.id.n = response.arg.id.n

====
